---- MODULE Spec2Model ----
(***************************************************************************)
(* Model of temperature_analysis_app.py: the rolling baseline              *)
(* (calculate_moving_statistics), the band test (detect_anomalies), the    *)
(* current-reading evaluation of tab3 and the seasonal group-by of tab4.   *)
(*                                                                         *)
(* Floating point values are modelled exactly as numbers of the form       *)
(*     num/den + k * sqrt(rnum/rden)                                       *)
(* or NaN, which is closed under every arithmetic operation the script     *)
(* performs (mean, sample std, mean +/- 2*std, comparisons).  Rounding     *)
(* error of IEEE doubles is outside the model.                             *)
(***************************************************************************)
EXTENDS Integers, Sequences, FiniteSets, TLC

VARIABLES
    pc,                        \* position in the script run
    city_data,                 \* line 99: rows of the selected city
    window_size,               \* line 41: window passed to line 111
    city_data_with_stats,      \* line 111
    city_data_with_anomalies,  \* line 163
    prev,                      \* the previous script run: its inputs and its line-111 result
    api_key,                   \* line 38
    current_month,             \* line 222
    weather_data,              \* line 209, first component
    error,                     \* line 209, second component
    shown,                     \* what tab3 rendered (lines 212, 217-219, 241-248, 250)
    evaluation,                \* lines 234-239: mean_temp, std_temp, the bounds, is_normal
    seasonal_stats             \* line 255-260

vars == << pc, city_data, window_size, city_data_with_stats, city_data_with_anomalies,
           prev, api_key, current_month, weather_data, error, shown, evaluation,
           seasonal_stats >>

rollVars == << city_data, window_size, city_data_with_stats, city_data_with_anomalies, prev >>
tab3Vars == << api_key, current_month, weather_data, error, shown, evaluation >>

-----------------------------------------------------------------------------
(* Bounds of the model *)

MaxLen == 6        \* longest series with distinct timestamps
MaxShort == 2      \* longest series with freely chosen (possibly equal) timestamps
MaxRerun == 3      \* longest series for which a second script run is explored
MaxWindow == 12    \* largest window size tried
MaxRows == 3       \* longest table of the seasonal tabs

Temps == {10, 40, 100}         \* temperatures of the series with distinct timestamps
ShortTemps == {10, 100}        \* temperatures of the short series
SeasonTemps == {100, 150, 200} \* temperatures of the seasonal tabs, in tenths of a degree
Readings == {49, 50, 150, 249, 250, 251} \* live readings, in tenths of a degree

-----------------------------------------------------------------------------
(* Numbers *)

Abs(x) == IF x < 0 THEN -x ELSE x

RECURSIVE GCD(_, _)
GCD(a, b) == IF b = 0 THEN a ELSE GCD(b, a % b)

NaN == [nan |-> TRUE, num |-> 0, den |-> 1, k |-> 0, rnum |-> 0, rden |-> 1]

\* num/den + k*sqrt(rnum/rden) in normal form (den, rden > 0, fractions reduced,
\* a vanishing radical written as k = 0, rnum = 0, rden = 1)
Num(num, den, k, rnum, rden) ==
    LET g == GCD(Abs(num), den)
        h == GCD(rnum, rden)
        z == (k = 0 \/ rnum = 0)
    IN [nan |-> FALSE, num |-> num \div g, den |-> den \div g,
        k |-> IF z THEN 0 ELSE k,
        rnum |-> IF z THEN 0 ELSE rnum \div h,
        rden |-> IF z THEN 1 ELSE rden \div h]

Float(t) == Num(t, 1, 0, 0, 1)
Ratio(n, d) == Num(n, d, 0, 0, 1)
Sqrt(n, d) == Num(0, 1, 1, n, d)

\* the operands of the script never carry two different radicals
Add(a, b) ==
    IF a.nan \/ b.nan THEN NaN
    ELSE LET r == IF a.k # 0 THEN a ELSE b
         IN Num(a.num * b.den + b.num * a.den, a.den * b.den, a.k + b.k, r.rnum, r.rden)

Scale(c, a) == IF a.nan THEN NaN ELSE Num(c * a.num, a.den, c * a.k, a.rnum, a.rden)

Sub(a, b) == Add(a, Scale(-1, b))

\* sign of num/den + k*sqrt(rnum/rden)
Sign(a) ==
    LET q == IF a.num > 0 THEN 1 ELSE IF a.num < 0 THEN -1 ELSE 0
        s == IF a.k > 0 THEN 1 ELSE IF a.k < 0 THEN -1 ELSE 0
        rad == a.k * a.k * a.rnum * a.den * a.den   \* (k*sqrt(r))^2 * den^2 * rden
        rat == a.num * a.num * a.rden               \* (num/den)^2 * den^2 * rden
    IN IF s = 0 THEN q
       ELSE IF q = 0 \/ q = s THEN s
       ELSE IF rad > rat THEN s
       ELSE IF rad < rat THEN q
       ELSE 0

\* variants of the comparisons: NaN compares as true; the upper end excluded
Gt_nan(a, b) == a.nan \/ b.nan \/ Sign(Sub(a, b)) > 0
Le_strict(a, b) == ~a.nan /\ ~b.nan /\ Sign(Sub(a, b)) < 0

\* IEEE comparisons: every comparison with NaN is false
Gt(a, b) == ~a.nan /\ ~b.nan /\ Sign(Sub(a, b)) > 0
Lt(a, b) == ~a.nan /\ ~b.nan /\ Sign(Sub(a, b)) < 0
Le(a, b) == ~a.nan /\ ~b.nan /\ Sign(Sub(a, b)) <= 0

-----------------------------------------------------------------------------
(* pandas reductions used by the script *)

Min(a, b) == IF a < b THEN a ELSE b
Max(a, b) == IF a > b THEN a ELSE b

RECURSIVE Sum(_)
Sum(values) == IF values = << >> THEN 0 ELSE Head(values) + Sum(Tail(values))

RECURSIVE SumSq(_)
SumSq(values) ==
    IF values = << >> THEN 0 ELSE Head(values) * Head(values) + SumSq(Tail(values))

\* .mean(): NaN without observations
mean(values) ==
    IF Len(values) = 0 THEN NaN ELSE Ratio(Sum(values), Len(values))

\* variant: population standard deviation (ddof = 0)
std_population(values) ==
    LET n == Len(values)
    IN IF n < 1 THEN NaN
       ELSE Sqrt(n * SumSq(values) - Sum(values) * Sum(values), n * n)

\* .std(): sample standard deviation (ddof = 1), NaN with fewer than two observations
std(values) ==
    LET n == Len(values)
    IN IF n < 2 THEN NaN
       ELSE Sqrt(n * SumSq(values) - Sum(values) * Sum(values), n * (n - 1))

\* variant: a trailing window (center=False)
Offset_trailing(window) == 0

\* rolling(window, center=True, min_periods=1): the fixed window of observation i
\* (1-based) ends after position i + (window-1) div 2 and holds `window` positions,
\* clipped to the series
Offset(window) == (window - 1) \div 2
WindowEnd(i, window, n) == Min(i + Offset(window), n)
WindowStart(i, window, n) == Max(i + Offset(window) - window, 0)
Window(values, i, window) ==
    SubSeq(values, WindowStart(i, window, Len(values)) + 1, WindowEnd(i, window, Len(values)))

rolling_mean(values, window) ==
    [i \in 1..Len(values) |-> mean(Window(values, i, window))]
rolling_std(values, window) ==
    [i \in 1..Len(values) |-> std(Window(values, i, window))]

-----------------------------------------------------------------------------
(* calculate_moving_statistics *)

Remove(rows, i) == SubSeq(rows, 1, i - 1) \o SubSeq(rows, i + 1, Len(rows))

MinTimestamp(rows) ==
    CHOOSE t \in {rows[i].timestamp : i \in DOMAIN rows} :
        \A i \in DOMAIN rows : t <= rows[i].timestamp

\* variant: the rows are taken in upload order
sort_index_unsorted(rows) == { rows }

\* sort_index(): ascending by timestamp.  The default sort kind is not stable, so
\* rows sharing a timestamp may come out in any order: the set of possible results.
RECURSIVE sort_index(_)
sort_index(rows) ==
    IF rows = << >> THEN { << >> }
    ELSE UNION { { << rows[i] >> \o rest : rest \in sort_index(Remove(rows, i)) } :
                 i \in { j \in DOMAIN rows : rows[j].timestamp = MinTimestamp(rows) } }

temperature(rows) == [i \in 1..Len(rows) |-> rows[i].temperature]

\* variant: a band of one standard deviation
moving_statistics_1sigma(sorted, window) ==
    LET rm == [i \in 1..Len(sorted) |-> mean(Window(temperature(sorted), i, window))]
        rs == [i \in 1..Len(sorted) |-> std(Window(temperature(sorted), i, window))]
    IN [i \in 1..Len(sorted) |->
           [timestamp |-> sorted[i].timestamp,
            city |-> sorted[i].city,
            temperature |-> sorted[i].temperature,
            season |-> sorted[i].season,
            rolling_mean |-> rm[i],
            rolling_std |-> rs[i],
            upper_bound |-> Add(rm[i], rs[i]),
            lower_bound |-> Sub(rm[i], rs[i])]]

\* variant: observations without a defined rolling_std are dropped (dropna)
moving_statistics_dropna(sorted, window) ==
    LET rm == [i \in 1..Len(sorted) |-> mean(Window(temperature(sorted), i, window))]
        rs == [i \in 1..Len(sorted) |-> std(Window(temperature(sorted), i, window))]
        kept == SelectSeq([i \in 1..Len(sorted) |-> i], LAMBDA i : ~rs[i].nan)
    IN [j \in 1..Len(kept) |->
           [timestamp |-> sorted[kept[j]].timestamp,
            city |-> sorted[kept[j]].city,
            temperature |-> sorted[kept[j]].temperature,
            season |-> sorted[kept[j]].season,
            rolling_mean |-> rm[kept[j]],
            rolling_std |-> rs[kept[j]],
            upper_bound |-> Add(rm[kept[j]], Scale(2, rs[kept[j]])),
            lower_bound |-> Sub(rm[kept[j]], Scale(2, rs[kept[j]]))]]

\* lines 46-55 on the sorted copy
moving_statistics(sorted, window) ==
    LET rm == rolling_mean(temperature(sorted), window)
        rs == rolling_std(temperature(sorted), window)
    IN [i \in 1..Len(sorted) |->
           [timestamp |-> sorted[i].timestamp,
            city |-> sorted[i].city,
            temperature |-> sorted[i].temperature,
            season |-> sorted[i].season,
            rolling_mean |-> rm[i],
            rolling_std |-> rs[i],
            upper_bound |-> Add(rm[i], Scale(2, rs[i])),
            lower_bound |-> Sub(rm[i], Scale(2, rs[i]))]]

\* the possible results of one call
calculate_moving_statistics(rows, window) ==
    { moving_statistics(sorted, window) : sorted \in sort_index(rows) }

-----------------------------------------------------------------------------
(* detect_anomalies *)

\* variant: the band is rolling_mean +/- rolling_std
anomaly_1sigma(row) ==
    \/ Gt(Float(row.temperature), Add(row.rolling_mean, row.rolling_std))
    \/ Lt(Float(row.temperature), Sub(row.rolling_mean, row.rolling_std))

anomaly(row) ==
    Gt(Float(row.temperature), row.upper_bound) \/ Lt(Float(row.temperature), row.lower_bound)

detect_anomalies(rows) ==
    [i \in 1..Len(rows) |->
        [timestamp |-> rows[i].timestamp,
         city |-> rows[i].city,
         temperature |-> rows[i].temperature,
         season |-> rows[i].season,
         rolling_mean |-> rows[i].rolling_mean,
         rolling_std |-> rows[i].rolling_std,
         upper_bound |-> rows[i].upper_bound,
         lower_bound |-> rows[i].lower_bound,
         anomaly |-> anomaly(rows[i])]]

-----------------------------------------------------------------------------
(* Script runs: tab1 and tab2 *)

SelectedCity == "Moscow"

Row(t, temp, s) == [timestamp |-> t, city |-> SelectedCity, temperature |-> temp, season |-> s]

Times == {1, 2}

\* series with distinct timestamps, uploaded in ascending or in descending order
LongSeries ==
    UNION { { [i \in 1..n |-> Row(IF asc THEN i ELSE n + 1 - i, temps[i], "winter")] :
              temps \in [1..n -> Temps], asc \in BOOLEAN } : n \in 0..MaxLen }

\* short series with freely chosen timestamps, equal ones included
ShortSeries ==
    UNION { [1..n -> { Row(t, temp, "summer") : t \in Times, temp \in ShortTemps }] :
            n \in 0..MaxShort }

NoPrev == [valid |-> FALSE, city_data |-> << >>, window_size |-> 0, stats |-> << >>]

NoWeather == [fetched |-> FALSE, temperature |-> 0]

NoEvaluation ==
    [made |-> FALSE, mean_temp |-> NaN, std_temp |-> NaN,
     lower_bound |-> NaN, upper_bound |-> NaN, is_normal |-> FALSE]

NoTab3 ==
    /\ api_key = FALSE
    /\ current_month = 0
    /\ weather_data = NoWeather
    /\ error = ""
    /\ shown = {}
    /\ evaluation = NoEvaluation

Init ==
    /\ pc = "tab1"
    /\ city_data \in LongSeries \cup ShortSeries
    /\ window_size \in 1..MaxWindow
    /\ city_data_with_stats = << >>
    /\ city_data_with_anomalies = << >>
    /\ prev = NoPrev
    /\ NoTab3
    /\ seasonal_stats = << >>

\* line 111
Tab1 ==
    /\ pc = "tab1"
    /\ city_data_with_stats' \in calculate_moving_statistics(city_data, window_size)
    /\ pc' = "tab2"
    /\ UNCHANGED << city_data, window_size, city_data_with_anomalies, prev,
                    tab3Vars, seasonal_stats >>

\* line 163
Tab2 ==
    /\ pc = "tab2"
    /\ city_data_with_anomalies' = detect_anomalies(city_data_with_stats)
    /\ pc' = "done"
    /\ UNCHANGED << city_data, window_size, city_data_with_stats, prev,
                    tab3Vars, seasonal_stats >>

Reverse(rows) == [i \in 1..Len(rows) |-> rows[Len(rows) + 1 - i]]
Rotate(rows, r) == SubSeq(rows, r + 1, Len(rows)) \o SubSeq(rows, 1, r)
Swap(rows, i) ==
    [j \in 1..Len(rows) |-> IF j = i THEN rows[i + 1] ELSE IF j = i + 1 THEN rows[i] ELSE rows[j]]

\* the same rows in another order
Shuffles(rows) ==
    {Reverse(rows)} \cup { Rotate(rows, r) : r \in 1..(Len(rows) - 1) }
                    \cup { Swap(rows, i) : i \in 1..(Len(rows) - 1) }

Remember ==
    prev' = [valid |-> TRUE, city_data |-> city_data, window_size |-> window_size,
             stats |-> city_data_with_stats]

\* the user moves the window slider (line 41): the script runs again
RerunWindow ==
    /\ pc = "done"
    /\ ~prev.valid
    /\ Len(city_data) <= MaxRerun
    /\ Remember
    /\ window_size' \in (1..MaxWindow) \ {window_size}
    /\ pc' = "tab1"
    /\ UNCHANGED << city_data, city_data_with_stats, city_data_with_anomalies,
                    tab3Vars, seasonal_stats >>

\* the user uploads the same rows in another order (lines 25-30): the script runs again
RerunUpload ==
    /\ pc = "done"
    /\ ~prev.valid
    /\ Len(city_data) <= MaxRerun
    /\ Remember
    /\ city_data' \in Shuffles(city_data)
    /\ pc' = "tab1"
    /\ UNCHANGED << window_size, city_data_with_stats, city_data_with_anomalies,
                    tab3Vars, seasonal_stats >>

Next == Tab1 \/ Tab2 \/ RerunWindow \/ RerunUpload

Spec == Init /\ [][Next]_vars

-----------------------------------------------------------------------------
(* Properties of tab1 and tab2 *)

Analysed == pc = "done"
HasStats == pc \in {"tab2", "done"}

DistinctTimestamps(rows) ==
    \A i, j \in DOMAIN rows : i # j => rows[i].timestamp # rows[j].timestamp

\* the five observations 10, 10, 10, 100, 10 at timestamps 1..5, in either upload order
IsExampleSeries(rows) ==
    /\ Len(rows) = 5
    /\ DistinctTimestamps(rows)
    /\ \A i \in 1..5 : rows[i].timestamp \in 1..5
                       /\ rows[i].temperature = (IF rows[i].timestamp = 4 THEN 100 ELSE 10)

ExampleAnalysed == Analysed /\ IsExampleSeries(city_data) /\ window_size = 3

\* C1 as stated: on the example series with window 3 the observation at t4 is
\* flagged and those at t1, t2, t3, t5 are not.
C1_Original ==
    ExampleAnalysed =>
        \A i \in 1..5 : city_data_with_anomalies[i].anomaly
                            = (city_data_with_anomalies[i].timestamp = 4)

\* C1 amended: on the example series with window 3 no observation is flagged, the
\* one at t4 included: its window 10, 100, 10 has mean 40 and sample variance 2700,
\* so its band is 40 +/- 2*sqrt(2700) and contains 100.
C1_Amended ==
    ExampleAnalysed =>
        /\ \A i \in 1..5 : ~city_data_with_anomalies[i].anomaly
        /\ city_data_with_anomalies[4].timestamp = 4
        /\ city_data_with_anomalies[4].rolling_mean = Float(40)
        /\ city_data_with_anomalies[4].rolling_std = Sqrt(2700, 1)
        /\ city_data_with_anomalies[4].upper_bound = Num(40, 1, 2, 2700, 1)
        /\ 100 - 40 > 0 /\ (100 - 40) * (100 - 40) < 4 * 2700

C1_Witness == ExampleAnalysed /\ city_data[1].timestamp = 5

\* every observation's window is the whole series
FullSeriesBaseline(stats, rows) ==
    \A i \in DOMAIN stats :
        /\ stats[i].rolling_mean = mean(temperature(rows))
        /\ stats[i].rolling_std = std(temperature(rows))
        /\ stats[i].upper_bound = Add(mean(temperature(rows)), Scale(2, std(temperature(rows))))
        /\ stats[i].lower_bound = Sub(mean(temperature(rows)), Scale(2, std(temperature(rows))))

SameRowsAgain == prev.valid /\ prev.city_data = city_data

\* C2 as stated, for series with distinct timestamps: the baseline with a window
\* larger than the series equals the baseline with the window of the series' length.
C2_Original ==
    (/\ pc = "tab2" /\ SameRowsAgain
     /\ DistinctTimestamps(city_data)
     /\ Len(city_data) >= 1
     /\ prev.window_size = Len(city_data)
     /\ window_size > Len(city_data))
        => city_data_with_stats = prev.stats

\* C2 amended: for a non-empty series of length N every window size W >= 2N-1
\* gives every observation the statistics of the whole series, hence the same
\* baseline for all such W; no window size is an error.
C2_Amended ==
    /\ (HasStats /\ Len(city_data) >= 1 /\ window_size >= 2 * Len(city_data) - 1)
            => FullSeriesBaseline(city_data_with_stats, city_data)
    /\ (/\ pc = "tab2" /\ SameRowsAgain /\ Len(city_data) >= 1
        /\ DistinctTimestamps(city_data)
        /\ prev.window_size >= 2 * Len(city_data) - 1
        /\ window_size >= 2 * Len(city_data) - 1)
            => city_data_with_stats = prev.stats

C2_Witness ==
    /\ pc = "tab2" /\ SameRowsAgain
    /\ Len(city_data) = 3
    /\ DistinctTimestamps(city_data)
    /\ temperature(city_data) = << 10, 10, 100 >>
    /\ prev.window_size = 5
    /\ window_size = 8
    /\ city_data_with_stats = prev.stats
    /\ city_data_with_stats[1].rolling_mean = Float(40)

Uploaded == prev.valid /\ prev.window_size = window_size /\ prev.city_data # city_data

\* C3 as stated, for two uploads whose timestamp columns agree position by position
\* while the rows differ (so rows share a timestamp): the same rows in another
\* order give the same output sequence.
C3_Original ==
    (/\ pc = "tab2" /\ Uploaded
     /\ \A i \in DOMAIN city_data : city_data[i].timestamp = prev.city_data[i].timestamp)
        => city_data_with_stats = prev.stats

\* C3 amended: for a series whose timestamps are pairwise distinct, every order of
\* the input rows gives the same output sequence, in ascending timestamp order.
C3_Amended ==
    (pc = "tab2" /\ Uploaded /\ DistinctTimestamps(city_data))
        => /\ city_data_with_stats = prev.stats
           /\ \A i \in 1..(Len(city_data_with_stats) - 1) :
                  city_data_with_stats[i].timestamp < city_data_with_stats[i + 1].timestamp

C3_Witness ==
    /\ pc = "tab2" /\ Uploaded /\ DistinctTimestamps(city_data)
    /\ Len(city_data) = 3
    /\ city_data[1].timestamp = 2
    /\ prev.city_data[1].timestamp = 3
    /\ temperature(city_data_with_stats) = << 10, 100, 10 >>
    /\ window_size = 2

\* |temperature - rolling_mean| > 2 * rolling_std, in integers: with
\* rolling_mean = num/den and rolling_std = sqrt(rnum/rden),
\* (temperature*den - num)^2 * rden > 4 * rnum * den^2
OutsideBand(row) ==
    LET d == row.temperature * row.rolling_mean.den - row.rolling_mean.num
    IN d * d * row.rolling_std.rden
         > 4 * row.rolling_std.rnum * row.rolling_mean.den * row.rolling_mean.den

\* C4: an observation with undefined rolling_std has undefined bounds and is not
\* flagged; an observation is flagged exactly when its bounds are defined and its
\* temperature lies outside them; with window size 1 or a single observation
\* nothing is flagged.
C4_Theorem ==
    Analysed =>
        /\ \A i \in DOMAIN city_data_with_anomalies :
             LET row == city_data_with_anomalies[i]
             IN /\ row.upper_bound.nan = row.rolling_std.nan
                /\ row.lower_bound.nan = row.rolling_std.nan
                /\ row.rolling_std.nan => ~row.anomaly
                /\ row.anomaly = (~row.upper_bound.nan /\ ~row.lower_bound.nan
                                  /\ OutsideBand(row))
        /\ (window_size = 1 \/ Len(city_data) = 1) =>
               \A i \in DOMAIN city_data_with_anomalies :
                   /\ city_data_with_anomalies[i].rolling_std.nan
                   /\ ~city_data_with_anomalies[i].anomaly

C4_Witness ==
    /\ Analysed
    /\ window_size = 1
    /\ Len(city_data) = 3
    /\ \E i \in DOMAIN city_data_with_anomalies :
           /\ city_data_with_anomalies[i].upper_bound.nan
           /\ city_data_with_anomalies[i].lower_bound.nan
           /\ ~city_data_with_anomalies[i].anomaly

Observation(row) ==
    [timestamp |-> row.timestamp, city |-> row.city,
     temperature |-> row.temperature, season |-> row.season]

Occurrences(rows, o) == Cardinality({ i \in DOMAIN rows : Observation(rows[i]) = o })

\* C8: a call of calculate_moving_statistics on N observations (N >= 0, any window
\* size >= 1) returns N records, one per input observation with its timestamp,
\* city, temperature and season unchanged, and leaves the caller's series as it was.
C8_Theorem ==
    [][ pc = "tab1" =>
          /\ Len(city_data_with_stats') = Len(city_data)
          /\ \A i \in DOMAIN city_data :
                 Occurrences(city_data_with_stats', city_data[i])
                     = Occurrences(city_data, city_data[i])
          /\ city_data' = city_data ]_vars

C8_Witness ==
    /\ pc = "tab2"
    /\ Len(city_data) = 4
    /\ Len(city_data_with_stats) = 4
    /\ city_data[1].timestamp = 4
    /\ city_data_with_stats[1].timestamp = 1
    /\ temperature(city_data) = << 100, 10, 10, 10 >>
    /\ temperature(city_data_with_stats) = << 10, 10, 10, 100 >>

\* two equal observations are both kept
C8_WitnessEqualRows ==
    /\ pc = "tab2"
    /\ Len(city_data) = 2
    /\ city_data[1] = city_data[2]
    /\ Len(city_data_with_stats) = 2

C8_WitnessEmpty == pc = "tab2" /\ city_data = << >> /\ city_data_with_stats = << >>

\* number of observations in the clipped centered window
\* [i - floor(W/2), i + ceil(W/2) - 1] of the observation at position i
WindowCount(i, W, N) ==
    Cardinality({ j \in 1..N : i - (W \div 2) <= j /\ j <= i + ((W + 1) \div 2) - 1 })

\* C9: an observation whose clipped centered window holds at most 5 observations
\* is not flagged; hence nothing is flagged when the window size is at most 5 or
\* the series has at most 5 observations.
C9_Theorem ==
    Analysed =>
        /\ \A i \in DOMAIN city_data_with_anomalies :
               WindowCount(i, window_size, Len(city_data)) <= 5
                   => ~city_data_with_anomalies[i].anomaly
        /\ (window_size <= 5 \/ Len(city_data) <= 5) =>
               \A i \in DOMAIN city_data_with_anomalies :
                   ~city_data_with_anomalies[i].anomaly

C9_Witness ==
    /\ Analysed
    /\ Len(city_data) = 6
    /\ window_size = 9
    /\ temperature(city_data_with_stats) = << 100, 10, 10, 10, 10, 10 >>
    /\ WindowCount(1, window_size, 6) = 5
    /\ ~city_data_with_anomalies[1].anomaly
    /\ city_data_with_anomalies[2].anomaly = FALSE

\* an observation with six observations in its window can be flagged
FlaggedReached ==
    /\ Analysed
    /\ \E i \in DOMAIN city_data_with_anomalies : city_data_with_anomalies[i].anomaly

-----------------------------------------------------------------------------
(* tab3: the current reading against the season's history *)

\* texts of the script, in English: line 69, 91, 93, 95
Errors == {"invalid api key", "http error", "connection error"}

\* lines 67-95: the possible results (weather_data, error) of one request
get_current_weather_sync(key) ==
    IF ~key THEN { [weather_data |-> NoWeather, error |-> "api key missing"] }
    ELSE { [weather_data |-> [fetched |-> TRUE, temperature |-> r], error |-> ""] :
           r \in Readings }
         \cup { [weather_data |-> NoWeather, error |-> e] : e \in Errors }

\* lines 223-229
month_to_season(month) ==
    IF month \in {12, 1, 2} THEN "winter"
    ELSE IF month \in {3, 4, 5} THEN "spring"
    ELSE IF month \in {6, 7, 8} THEN "summer"
    ELSE IF month \in {9, 10, 11} THEN "autumn"
    ELSE "unknown"

\* line 231
season_data(rows, season) == SelectSeq(rows, LAMBDA row : row.season = season)

\* lines 234-239
evaluate(rows, reading) ==
    LET mean_temp == mean(temperature(rows))
        std_temp == std(temperature(rows))
        lower_bound == Sub(mean_temp, Scale(2, std_temp))
        upper_bound == Add(mean_temp, Scale(2, std_temp))
    IN [made |-> TRUE, mean_temp |-> mean_temp, std_temp |-> std_temp,
        lower_bound |-> lower_bound, upper_bound |-> upper_bound,
        is_normal |-> Le(lower_bound, Float(reading)) /\ Le(Float(reading), upper_bound)]

\* lines 241-248
verdict(e) ==
    {"season", "seasonal mean", "normal range"}
        \cup (IF e.is_normal THEN {"temperature is normal"} ELSE {"anomalous temperature"})

WeatherLabels == {"winter", "summer", "monsoon"}

\* tables of the seasonal tabs: timestamps ascending, one row per day
Table(n, temps, seasons) == [i \in 1..n |-> Row(i, temps[i], seasons[i])]

\* city_data is such a table with up to MaxRows rows and seasons among `labels`
LoadTable(labels) ==
    \E n \in 0..MaxRows :
        \E temps \in [1..n -> SeasonTemps], seasons \in [1..n -> labels] :
            city_data = Table(n, temps, seasons)

InitTab3 ==
    /\ pc = "tab3"
    /\ LoadTable(WeatherLabels)
    /\ window_size = 1
    /\ city_data_with_stats = << >>
    /\ city_data_with_anomalies = << >>
    /\ prev = NoPrev
    /\ api_key \in BOOLEAN
    /\ current_month = 0
    /\ weather_data = NoWeather
    /\ error = ""
    /\ shown = {}
    /\ evaluation = NoEvaluation
    /\ seasonal_stats = << >>

\* line 250: no key entered
Tab3NoKey ==
    /\ pc = "tab3"
    /\ ~api_key
    /\ shown' = {"enter api key"}
    /\ pc' = "tab4"
    /\ UNCHANGED << rollVars, api_key, current_month, weather_data, error, evaluation,
                    seasonal_stats >>

\* line 207: the button is not pressed in this run
Tab3NoClick ==
    /\ pc = "tab3"
    /\ api_key
    /\ pc' = "tab4"
    /\ UNCHANGED << rollVars, tab3Vars, seasonal_stats >>

\* lines 209-212: the request fails
Tab3Error ==
    /\ pc = "tab3"
    /\ api_key
    /\ \E res \in get_current_weather_sync(api_key) :
           /\ res.error # ""
           /\ weather_data' = res.weather_data
           /\ error' = res.error
    /\ shown' = {"error"}
    /\ pc' = "tab4"
    /\ UNCHANGED << rollVars, api_key, current_month, evaluation, seasonal_stats >>

\* lines 209-248: the request succeeds
Tab3Reading ==
    /\ pc = "tab3"
    /\ api_key
    /\ \E res \in get_current_weather_sync(api_key), month \in 1..12 :
           /\ res.error = ""
           /\ weather_data' = res.weather_data
           /\ error' = res.error
           /\ current_month' = month
           /\ LET rows == season_data(city_data, month_to_season(month))
              IN IF Len(rows) > 0
                 THEN /\ evaluation' = evaluate(rows, res.weather_data.temperature)
                      /\ shown' = {"current temperature"} \cup verdict(evaluation')
                 ELSE /\ evaluation' = NoEvaluation
                      /\ shown' = {"current temperature"}
    /\ pc' = "tab4"
    /\ UNCHANGED << rollVars, api_key, seasonal_stats >>

NextTab3 == Tab3NoKey \/ Tab3NoClick \/ Tab3Error \/ Tab3Reading

SpecTab3 == InitTab3 /\ [][NextTab3]_vars

-----------------------------------------------------------------------------
(* Properties of tab3 *)

CurrentSeasonTemps == temperature(season_data(city_data, month_to_season(current_month)))

ReadingFetched == pc = "tab4" /\ weather_data.fetched

\* C6 as stated: a fetched reading for a city with observations, none of them in
\* the current season, ends in a reported NoSeasonalData outcome, without a verdict.
C6_Claim ==
    (ReadingFetched /\ Len(city_data) > 0 /\ Len(CurrentSeasonTemps) = 0)
        => /\ \E m \in shown : m \notin {"current temperature"}
           /\ shown \cap {"temperature is normal", "anomalous temperature"} = {}

\* what the script does there: it renders the reading and nothing else
C6_Silent ==
    (ReadingFetched /\ Len(CurrentSeasonTemps) = 0)
        => shown = {"current temperature"} /\ ~evaluation.made

\* lower <= reading <= upper for lower, upper = S/n -/+ 2*sqrt((n*Q - S^2)/(n*(n-1))),
\* in integers: (n*reading - S)^2 * (n-1) <= 4 * n * (n*Q - S^2); undefined for n < 2
InsideBand(values, reading) ==
    LET n == Len(values)
        d == n * reading - Sum(values)
    IN /\ n >= 2
       /\ d * d * (n - 1) <= 4 * n * (n * SumSq(values) - Sum(values) * Sum(values))

IsExampleSeason(values) ==
    /\ Len(values) = 3
    /\ \A t \in SeasonTemps : \E i \in 1..3 : values[i] = t

\* C7: with observations in the current season the evaluation takes
\* lower = mean - 2*std and upper = mean + 2*std of the season, and the reading is
\* normal exactly when lower <= reading <= upper, both ends included; with mean
\* 15.0 and std 5.0 the readings 24.9 and 25.0 are normal and 25.1 is not.
C7_Theorem ==
    (ReadingFetched /\ Len(CurrentSeasonTemps) > 0) =>
        /\ evaluation.made
        /\ evaluation.mean_temp = Ratio(Sum(CurrentSeasonTemps), Len(CurrentSeasonTemps))
        /\ evaluation.lower_bound = Sub(evaluation.mean_temp, Scale(2, evaluation.std_temp))
        /\ evaluation.upper_bound = Add(evaluation.mean_temp, Scale(2, evaluation.std_temp))
        /\ evaluation.is_normal = InsideBand(CurrentSeasonTemps, weather_data.temperature)
        /\ ("temperature is normal" \in shown) = evaluation.is_normal
        /\ ("anomalous temperature" \in shown) = ~evaluation.is_normal
        /\ IsExampleSeason(CurrentSeasonTemps) =>
               /\ evaluation.mean_temp = Float(150)
               /\ evaluation.std_temp = Sqrt(50 * 50, 1)
               /\ evaluation.is_normal = (weather_data.temperature \in {50, 150, 249, 250})

C7_Witness ==
    /\ ReadingFetched
    /\ IsExampleSeason(CurrentSeasonTemps)
    /\ weather_data.temperature = 250
    /\ evaluation.is_normal
    /\ current_month = 7

C7_WitnessOutside ==
    /\ ReadingFetched
    /\ IsExampleSeason(CurrentSeasonTemps)
    /\ weather_data.temperature = 251
    /\ ~evaluation.is_normal

\* C10: with exactly one observation in the current season the standard deviation
\* and both bounds are undefined and every reading, one equal to that observation
\* included, is classified as anomalous.
C10_Theorem ==
    (ReadingFetched /\ Len(CurrentSeasonTemps) = 1) =>
        /\ evaluation.made
        /\ evaluation.mean_temp = Float(CurrentSeasonTemps[1])
        /\ evaluation.std_temp.nan
        /\ evaluation.lower_bound.nan
        /\ evaluation.upper_bound.nan
        /\ ~evaluation.is_normal
        /\ "anomalous temperature" \in shown
        /\ "temperature is normal" \notin shown

C10_Witness ==
    /\ ReadingFetched
    /\ Len(CurrentSeasonTemps) = 1
    /\ Len(city_data) = 3
    /\ weather_data.temperature = CurrentSeasonTemps[1]
    /\ "anomalous temperature" \in shown

-----------------------------------------------------------------------------
(* tab4: statistics per season *)

\* a row whose season cell is empty
Missing == "<NA>"

season_order == << "winter", "spring", "summer", "autumn" >>

\* the labels in the order group-by sorts its keys
SortedLabels == << "autumn", "monsoon", "spring", "summer", "winter" >>

StatsLabels == {"winter", "spring", "summer", "autumn", "monsoon", Missing}

RECURSIVE ISqrt(_)
ISqrt(x) ==
    IF x < 2 THEN x
    ELSE LET s == 2 * ISqrt(x \div 4)
         IN IF (s + 1) * (s + 1) <= x THEN s + 1 ELSE s

\* nearest integer to num/den (den > 0), halves to the even neighbour
RoundRatio(num, den) ==
    LET f == (2 * num + den) \div (2 * den)
    IN IF (2 * num + den) % (2 * den) = 0 /\ f % 2 = 1 THEN f - 1 ELSE f

\* nearest integer to sqrt(num/den), halves to the even neighbour
RoundRoot(num, den) ==
    LET r == ISqrt((4 * num) \div den)          \* floor(2 * sqrt(num/den))
        f == (r + 1) \div 2
    IN IF (4 * num) % den = 0 /\ r * r = (4 * num) \div den /\ r % 2 = 1 /\ f % 2 = 1
       THEN f - 1 ELSE f

\* .round(2) of a value in degrees, the model's unit being a tenth of a degree:
\* a multiple of 1/10 of the unit
round(a) ==
    IF a.nan THEN NaN
    ELSE IF a.k = 0 THEN Ratio(RoundRatio(10 * a.num, a.den), 10)
    ELSE Ratio(RoundRoot(100 * a.rnum, a.rden), 10)

SeqMin(values) == CHOOSE v \in {values[i] : i \in DOMAIN values} :
                      \A i \in DOMAIN values : v <= values[i]
SeqMax(values) == CHOOSE v \in {values[i] : i \in DOMAIN values} :
                      \A i \in DOMAIN values : v >= values[i]

\* variant: only the four seasons of season_order form groups
groupby_four(rows) ==
    SelectSeq(SortedLabels, LAMBDA label :
        /\ \E i \in DOMAIN season_order : season_order[i] = label
        /\ \E i \in DOMAIN rows : rows[i].season = label)

\* groupby('season'): the keys present, sorted; rows without a season are dropped
groupby(rows) ==
    SelectSeq(SortedLabels, LAMBDA label : \E i \in DOMAIN rows : rows[i].season = label)

\* lines 255-260
aggregate(rows) ==
    LET keys == groupby(rows)
    IN [g \in 1..Len(keys) |->
           LET values == temperature(season_data(rows, keys[g]))
           IN [season |-> keys[g],
               temperature_mean |-> round(mean(values)),
               temperature_std |-> round(std(values)),
               temperature_min |-> round(Float(SeqMin(values))),
               temperature_max |-> round(Float(SeqMax(values))),
               temperature_count |-> Len(values)]]

InitTab4 ==
    /\ pc = "tab4"
    /\ LoadTable(StatsLabels)
    /\ window_size = 1
    /\ city_data_with_stats = << >>
    /\ city_data_with_anomalies = << >>
    /\ prev = NoPrev
    /\ NoTab3
    /\ seasonal_stats = << >>

Tab4 ==
    /\ pc = "tab4"
    /\ seasonal_stats' = aggregate(city_data)
    /\ pc' = "end"
    /\ UNCHANGED << rollVars, tab3Vars >>

NextTab4 == Tab4

SpecTab4 == InitTab4 /\ [][NextTab4]_vars

-----------------------------------------------------------------------------
(* Properties of tab4 *)

Aggregated == pc = "end"

RECURSIVE TotalCount(_)
TotalCount(stats) ==
    IF stats = << >> THEN 0 ELSE Head(stats).temperature_count + TotalCount(Tail(stats))

InSeasonOrder(label) == \E i \in DOMAIN season_order : season_order[i] = label

Labelled(rows, P(_)) == Cardinality({ i \in DOMAIN rows : P(rows[i].season) })

\* C5 as stated: the counts of the seasonal aggregation add up to the number of
\* observations labelled winter, spring, summer or autumn, whatever other labels
\* the input holds.
C5_Original ==
    Aggregated => TotalCount(seasonal_stats) = Labelled(city_data, InSeasonOrder)

\* C5 amended: the counts add up to the number of observations that carry a
\* season label, whatever the label; that is the number of observations labelled
\* winter, spring, summer or autumn exactly when no other label occurs.
C5_Amended ==
    Aggregated =>
        /\ TotalCount(seasonal_stats) = Labelled(city_data, LAMBDA l : l # Missing)
        /\ (TotalCount(seasonal_stats) = Labelled(city_data, InSeasonOrder))
               = (\A i \in DOMAIN city_data : city_data[i].season \in {Missing}
                      \/ InSeasonOrder(city_data[i].season))
        /\ \A g \in DOMAIN seasonal_stats :
               seasonal_stats[g].temperature_count
                   = Labelled(city_data, LAMBDA l : l = seasonal_stats[g].season)

C5_Witness ==
    /\ Aggregated
    /\ Len(city_data) = 3
    /\ city_data[1].season = "monsoon"
    /\ city_data[2].season = "winter"
    /\ city_data[3].season = Missing
    /\ TotalCount(seasonal_stats) = 2
    /\ Len(seasonal_stats) = 2

====
